---- MODULE Spec2Model ----
(***************************************************************************)
(* Model of cart_lines_discounts_generate_run, the order-discount function *)
(* of extensions/daisychain-discount-function.                             *)
(*                                                                         *)
(* One evaluation is a walk through the function body; pc is the position  *)
(* in the body.  A second evaluation (Reinvoke) runs the function again on *)
(* the same input or on an input that differs in one part, so that the     *)
(* dependence of the output on the parts of the input can be stated.       *)
(*                                                                         *)
(* Money is counted in hundredths of a currency unit.  An f64 is a record  *)
(* [kind, v]: a finite number, NaN, or an infinity.  Option<T> is a        *)
(* sequence of length 0 (None) or 1 (Some).                                *)
(***************************************************************************)
EXTENDS Integers, Sequences, FiniteSets

VARIABLES input, pc, cart_subtotal, has_config_metafield, config, customer,
          available_credits, discount_amount, operations, result, first

vars == <<input, pc, cart_subtotal, has_config_metafield, config, customer,
          available_credits, discount_amount, operations, result, first>>

\* ----------------------------------------------------------------- bounds

\* The cart subtotal ranges over 0, 50, ..., 50 * MaxSubtotal hundredths.
MaxSubtotal == 3

\* ------------------------------------------------------------ Option, f64

None == <<>>
Some(x) == <<x>>
IsSome(o) == o # <<>>
Unwrap(o) == o[1]

Num(n) == [kind |-> "num", v |-> n]
NaN == [kind |-> "nan", v |-> 0]
PosInf == [kind |-> "inf", v |-> 1]
NegInf == [kind |-> "inf", v |-> -1]

\* a < b on f64: false as soon as one side is NaN.
F64Lt(a, b) ==
    /\ a.kind # "nan"
    /\ b.kind # "nan"
    /\ \/ a.kind = "num" /\ b.kind = "num" /\ a.v < b.v
       \/ a.kind = "num" /\ b = PosInf
       \/ a = NegInf /\ b # NegInf

\* a <= b on f64: false as soon as one side is NaN.
F64Le(a, b) ==
    /\ a.kind # "nan"
    /\ b.kind # "nan"
    /\ (a = b \/ F64Lt(a, b))

\* f64::min gone wrong: the credits uncapped.
F64MinNoCap(a, b) == a

\* f64::min gone wrong: max in its place.
F64MinIsMax(a, b) ==
    IF a.kind = "nan" THEN b
    ELSE IF b.kind = "nan" THEN a
    ELSE IF F64Lt(a, b) THEN b ELSE a

\* f64::min: the smaller one; when one side is NaN, the other side.
F64Min(a, b) ==
    IF a.kind = "nan" THEN b
    ELSE IF b.kind = "nan" THEN a
    ELSE IF F64Lt(b, a) THEN b ELSE a

F64Neg(a) ==
    IF a.kind = "nan" THEN a ELSE [kind |-> a.kind, v |-> 0 - a.v]

\* Decimal is a wrapper around an f64.
DecimalFrom(x) == [decimal |-> x]
AsF64(d) == d.decimal

\* ------------------------------------------------------ str::parse::<f64>

DigitChars == {"0", "1", "2", "3", "4", "5", "6", "7", "8", "9"}

DigitVal(c) ==
    CASE c = "0" -> 0 [] c = "1" -> 1 [] c = "2" -> 2 [] c = "3" -> 3
      [] c = "4" -> 4 [] c = "5" -> 5 [] c = "6" -> 6 [] c = "7" -> 7
      [] c = "8" -> 8 [] c = "9" -> 9

AllDigits(s) == \A i \in 1..Len(s) : s[i] \in DigitChars

RECURSIVE DigitsValue(_)
DigitsValue(s) ==
    IF s = <<>> THEN 0
    ELSE DigitsValue(SubSeq(s, 1, Len(s) - 1)) * 10 + DigitVal(s[Len(s)])

\* The fraction digits as hundredths (the texts of the model carry at most
\* two fraction digits, so nothing is rounded).
Hundredths(fp) ==
    IF Len(fp) = 0 THEN 0
    ELSE IF Len(fp) = 1 THEN DigitVal(fp[1]) * 10
    ELSE DigitVal(fp[1]) * 10 + DigitVal(fp[2])

\* An unsigned decimal literal: digits, optionally a point and digits, with
\* at least one digit in all.  Err is None.
ParseUnsigned(s) ==
    LET dots == {i \in 1..Len(s) : s[i] = "."}
    IN  IF s = <<"N", "a", "N">> THEN Some(NaN)
        ELSE IF s = <<"i", "n", "f">> THEN Some(PosInf)
        ELSE IF Cardinality(dots) > 1 THEN None
        ELSE LET d  == IF dots = {} THEN Len(s) + 1 ELSE CHOOSE i \in dots : TRUE
                 ip == SubSeq(s, 1, d - 1)
                 fp == SubSeq(s, d + 1, Len(s))
             IN  IF AllDigits(ip) /\ AllDigits(fp) /\ Len(ip) + Len(fp) > 0
                 THEN Some(Num(DigitsValue(ip) * 100 + Hundredths(fp)))
                 ELSE None

\* credits_str.parse::<f64>(): an optional sign, then the literal.
ParseF64(s) ==
    IF s = <<>> THEN None
    ELSE IF s[1] \in {"+", "-"}
    THEN LET r == ParseUnsigned(Tail(s))
         IN  IF IsSome(r) /\ s[1] = "-" THEN Some(F64Neg(Unwrap(r))) ELSE r
    ELSE ParseUnsigned(s)

\* The fallback gone wrong: unwrap_or(1.0).
ParseCreditsOrOne(s) ==
    LET r == ParseF64(s) IN IF IsSome(r) THEN Unwrap(r) ELSE Num(100)

\* credits_str.parse::<f64>().unwrap_or(0.0)
ParseCredits(s) ==
    LET r == ParseF64(s) IN IF IsSome(r) THEN Unwrap(r) ELSE Num(0)

\* ------------------------------------------------------------- the input

DiscountClassSets == {{}, {"Product"}, {"Order"}}

Subtotals == {DecimalFrom(Num(50 * k)) : k \in 0..MaxSubtotal}

\* DiscountConfig; referrer_credit_amount and min_referrer_orders are read
\* by nothing.
DiscountConfigs ==
    [referee_discount_percentage : {Num(0 - 5), Num(15), Num(150)},
     referee_min_order : {Num(0), Num(100)},
     referrer_credit_amount : {Num(1000)},
     min_referrer_orders : {1}]

\* The discount's metafield: absent, or a JSON payload that is a
\* DiscountConfig object or something else.
DiscountMetafields ==
    {None}
    \cup {Some([well_formed |-> FALSE])}
    \cup {Some([well_formed |-> TRUE, json |-> c]) : c \in DiscountConfigs}

Attribute(v) == Some([value |-> v])

ReferralValidatedAttrs ==
    {None, Attribute(None), Attribute(Some("true")), Attribute(Some("True")),
     Attribute(Some("1"))}

ReferrerCustomerIdAttrs ==
    {None, Attribute(None), Attribute(Some("")),
     Attribute(Some("gid://shopify/Customer/7"))}

CreditTexts ==
    {<<>>, <<"a", "b", "c">>, <<"0">>, <<"-", "1">>, <<"0", ".", "5", "0">>,
     <<"1", ".", "0", "0">>, <<"1", ".", "5">>, <<"2">>, <<"N", "a", "N">>,
     <<"i", "n", "f">>}

CustomerWith(text) == Some([customer |-> Some([metafield |-> Some([value |-> text])])])

BuyerIdentities ==
    {None, Some([customer |-> None]), Some([customer |-> Some([metafield |-> None])])}
    \cup {CustomerWith(t) : t \in CreditTexts}

Inputs ==
    [discount_classes : DiscountClassSets,
     subtotal_amount : Subtotals,
     metafield : DiscountMetafields,
     referral_validated : ReferralValidatedAttrs,
     referrer_customer_id : ReferrerCustomerIdAttrs,
     buyer_identity : BuyerIdentities]

\* ------------------------------------------------------------ the output

EmptyRunResult == [operations |-> <<>>]

\* CartOperation::OrderDiscountsAdd with one candidate on the order subtotal.
OrderDiscountsAdd(value, message) ==
    [selection_strategy |-> "First",
     candidates |->
        << [targets |-> << [kind |-> "OrderSubtotal",
                            excluded_cart_line_ids |-> <<>>] >>,
            message |-> Some(message),
            value |-> value,
            conditions |-> None,
            associated_discount_code |-> None] >>]

Percentage(d) == [kind |-> "Percentage", value |-> d]
FixedAmount(d) == [kind |-> "FixedAmount", amount |-> d]

\* ---------------------------------------------------- the function's tests

\* The class gate gone wrong: any class at all.
HasAnyDiscountClass(classes) == classes # {}

\* discount_classes().contains(&DiscountClass::Order)
HasOrderDiscountClass(classes) == "Order" \in classes

\* The mode test gone wrong: a payload that is no config selects store credit.
HasWellFormedConfig(mf) == IsSome(mf) /\ Unwrap(mf).well_formed

\* input.discount().metafield().is_some()
HasConfigMetafield(mf) == IsSome(mf)

\* The validation gate gone wrong: any value counts as validated.
AttributeHasValue(attr) == IsSome(attr) /\ IsSome(Unwrap(attr).value)

\* .referral_validated().and_then(|a| a.value()).map(|v| v == "true")
\*  .unwrap_or(false)
ReferralValidated(attr) ==
    /\ IsSome(attr)
    /\ IsSome(Unwrap(attr).value)
    /\ Unwrap(Unwrap(attr).value) = "true"

\* The referrer gate gone wrong: the attribute is tested, not its value.
ReferrerIdOfAttribute(attr) == IF IsSome(attr) THEN Some("") ELSE None

\* .referrer_customer_id().and_then(|a| a.value())
ReferrerId(attr) == IF IsSome(attr) THEN Unwrap(attr).value ELSE None

\* The minimum gate gone wrong: <= in place of <.
BelowOrAtMinOrder(subtotal, cfg) == F64Le(subtotal, cfg.referee_min_order)

\* cart_subtotal < config.referee_min_order
BelowMinOrder(subtotal, cfg) == F64Lt(subtotal, cfg.referee_min_order)

\* config.referee_discount_percentage
DiscountPercentage(cfg) == cfg.referee_discount_percentage

\* ------------------------------------------------------------- the states

Terminal == {"EmptyResult", "SingleOperationResult", "Trap"}

Locals0 ==
    /\ cart_subtotal = Num(0)
    /\ has_config_metafield = FALSE
    /\ config = None
    /\ customer = None
    /\ available_credits = Num(0)
    /\ discount_amount = Num(0)
    /\ operations = <<>>
    /\ result = None

Init ==
    /\ input \in Inputs
    /\ pc = "Start"
    /\ first = None
    /\ Locals0

ReturnEmpty ==
    /\ pc' = "EmptyResult"
    /\ result' = Some(EmptyRunResult)

Goto(label) ==
    /\ pc' = label
    /\ result' = result

\* Lines 18-25: the ORDER class gate.
CheckDiscountClass ==
    /\ pc = "Start"
    /\ IF ~HasOrderDiscountClass(input.discount_classes)
       THEN ReturnEmpty
       ELSE Goto("Eligible")
    /\ UNCHANGED <<input, cart_subtotal, has_config_metafield, config, customer,
                   available_credits, discount_amount, operations, first>>

\* Lines 28-38: the subtotal is read and the mode is chosen.
SelectMode ==
    /\ pc = "Eligible"
    /\ cart_subtotal' = AsF64(input.subtotal_amount)
    /\ has_config_metafield' = HasConfigMetafield(input.metafield)
    /\ Goto("ModeSelected")
    /\ UNCHANGED <<input, config, customer, available_credits, discount_amount,
                   operations, first>>

\* Lines 43-53.
CheckReferralValidated ==
    /\ pc = "ModeSelected"
    /\ has_config_metafield
    /\ IF ~ReferralValidated(input.referral_validated)
       THEN ReturnEmpty
       ELSE Goto("ReferrerIdCheck")
    /\ UNCHANGED <<input, cart_subtotal, has_config_metafield, config, customer,
                   available_credits, discount_amount, operations, first>>

\* Lines 56-63.
CheckReferrerId ==
    /\ pc = "ReferrerIdCheck"
    /\ IF ~IsSome(ReferrerId(input.referrer_customer_id))
       THEN ReturnEmpty
       ELSE Goto("ConfigLoad")
    /\ UNCHANGED <<input, cart_subtotal, has_config_metafield, config, customer,
                   available_credits, discount_amount, operations, first>>

\* Lines 66-72.  json_value() hands out a &DiscountConfig, neither an Option
\* nor a Result: a payload that is no DiscountConfig cannot come back as a
\* value, the accessor aborts the run.
LoadConfig ==
    /\ pc = "ConfigLoad"
    /\ IF ~IsSome(input.metafield)
       THEN ReturnEmpty /\ config' = config
       ELSE IF Unwrap(input.metafield).well_formed
       THEN Goto("MinOrderCheck") /\ config' = Some(Unwrap(input.metafield).json)
       ELSE Goto("Trap") /\ config' = config
    /\ UNCHANGED <<input, cart_subtotal, has_config_metafield, customer,
                   available_credits, discount_amount, operations, first>>

\* Lines 75-78.
CheckMinOrder ==
    /\ pc = "MinOrderCheck"
    /\ IF BelowMinOrder(cart_subtotal, Unwrap(config))
       THEN ReturnEmpty
       ELSE Goto("Calculated")
    /\ UNCHANGED <<input, cart_subtotal, has_config_metafield, config, customer,
                   available_credits, discount_amount, operations, first>>

\* Lines 81-103.
BuildReferralOperation ==
    /\ pc = "Calculated"
    /\ has_config_metafield
    /\ operations' =
         << OrderDiscountsAdd(
              Percentage(DecimalFrom(DiscountPercentage(Unwrap(config)))),
              <<"Referral discount: ", DiscountPercentage(Unwrap(config)), "% off">>) >>
    /\ Goto("Built")
    /\ UNCHANGED <<input, cart_subtotal, has_config_metafield, config, customer,
                   available_credits, discount_amount, first>>

\* Lines 109-119.
CheckCustomer ==
    /\ pc = "ModeSelected"
    /\ ~has_config_metafield
    /\ IF IsSome(input.buyer_identity) /\ IsSome(Unwrap(input.buyer_identity).customer)
       THEN Goto("CreditsRead") /\ customer' = Unwrap(input.buyer_identity).customer
       ELSE ReturnEmpty /\ customer' = customer
    /\ UNCHANGED <<input, cart_subtotal, has_config_metafield, config,
                   available_credits, discount_amount, operations, first>>

\* Lines 122-132.
ReadCredits ==
    /\ pc = "CreditsRead"
    /\ LET credits_str == IF IsSome(Unwrap(customer).metafield)
                          THEN Unwrap(Unwrap(customer).metafield).value
                          ELSE <<"0">>
       IN  /\ available_credits' = ParseCredits(credits_str)
           /\ IF F64Le(available_credits', Num(0))
              THEN ReturnEmpty
              ELSE Goto("CapCheck")
    /\ UNCHANGED <<input, cart_subtotal, has_config_metafield, config, customer,
                   discount_amount, operations, first>>

\* Lines 135-139.
CapDiscount ==
    /\ pc = "CapCheck"
    /\ discount_amount' = F64Min(available_credits, cart_subtotal)
    /\ IF F64Le(discount_amount', Num(0))
       THEN ReturnEmpty
       ELSE Goto("Calculated")
    /\ UNCHANGED <<input, cart_subtotal, has_config_metafield, config, customer,
                   available_credits, operations, first>>

\* Lines 142-164.
BuildStoreCreditOperation ==
    /\ pc = "Calculated"
    /\ ~has_config_metafield
    /\ operations' =
         << OrderDiscountsAdd(FixedAmount(DecimalFrom(discount_amount)),
                              <<"Store credit: $", discount_amount>>) >>
    /\ Goto("Built")
    /\ UNCHANGED <<input, cart_subtotal, has_config_metafield, config, customer,
                   available_credits, discount_amount, first>>

\* Lines 105 and 166.
ReturnOperations ==
    /\ pc = "Built"
    /\ pc' = "SingleOperationResult"
    /\ result' = Some([operations |-> operations])
    /\ UNCHANGED <<input, cart_subtotal, has_config_metafield, config, customer,
                   available_credits, discount_amount, operations, first>>

\* The inputs the second evaluation runs on: the same input, the input
\* without its config metafield, with another buyer, or with other referral
\* attributes.
Variants(in) ==
    {in}
    \cup {[in EXCEPT !.metafield = None]}
    \cup {[in EXCEPT !.buyer_identity = b] :
            b \in {None, CustomerWith(<<"1", ".", "0", "0">>)}}
    \cup {[in EXCEPT !.referral_validated = a[1], !.referrer_customer_id = a[2]] :
            a \in {<<None, None>>,
                   <<Attribute(Some("true")),
                     Attribute(Some("gid://shopify/Customer/7"))>>}}

\* The host calls the function again: every evaluation starts from fresh
\* locals, nothing is kept between two calls.
Reinvoke ==
    /\ pc \in Terminal
    /\ first = None
    /\ first' = Some([input |-> input, pc |-> pc, result |-> result])
    /\ input' \in Variants(input)
    /\ pc' = "Start"
    /\ cart_subtotal' = Num(0)
    /\ has_config_metafield' = FALSE
    /\ config' = None
    /\ customer' = None
    /\ available_credits' = Num(0)
    /\ discount_amount' = Num(0)
    /\ operations' = <<>>
    /\ result' = None

Next ==
    \/ CheckDiscountClass
    \/ SelectMode
    \/ CheckReferralValidated
    \/ CheckReferrerId
    \/ LoadConfig
    \/ CheckMinOrder
    \/ BuildReferralOperation
    \/ CheckCustomer
    \/ ReadCredits
    \/ CapDiscount
    \/ BuildStoreCreditOperation
    \/ ReturnOperations
    \/ Reinvoke

Spec == Init /\ [][Next]_vars

\* ------------------------------------------------- reading input and output

Finished == pc \in Terminal
OpsOf(r) == IF IsSome(r) THEN Unwrap(r).operations ELSE <<>>
ReturnedEmpty == pc = "EmptyResult" /\ result = Some([operations |-> <<>>])
ReturnedOne == pc = "SingleOperationResult" /\ IsSome(result) /\ Len(OpsOf(result)) = 1
TheValue == OpsOf(result)[1].candidates[1].value

OrderGranted(in) == "Order" \in in.discount_classes
SubtotalOf(in) == in.subtotal_amount.decimal.v
ConfigPresent(in) == in.metafield # <<>>
ConfigValid(in) == in.metafield # <<>> /\ in.metafield[1].well_formed
ConfigOf(in) == in.metafield[1].json
AttrValueIs(attr, s) == attr # <<>> /\ attr[1].value = <<s>>
AttrValued(attr) == attr # <<>> /\ attr[1].value # <<>>
HasCustomer(in) == in.buyer_identity # <<>> /\ in.buyer_identity[1].customer # <<>>

\* The credits of the input's customer: 0 without a credit metafield or with
\* a text that is no number.
CreditsOf(in) ==
    LET mf == in.buyer_identity[1].customer[1].metafield
    IN  IF mf = <<>> \/ ParseF64(mf[1].value) = <<>> THEN Num(0)
        ELSE ParseF64(mf[1].value)[1]

\* ------------------------------------------------------------------ claims

\* C1: without the Order discount class the function returns an empty
\* operations list, whatever the rest of the input is.
C1_NoOrderClassGivesEmpty ==
    (Finished /\ ~OrderGranted(input)) => ReturnedEmpty

C1_Witness ==
    /\ ReturnedEmpty
    /\ input.discount_classes = {"Product"}
    /\ ConfigValid(input)
    /\ AttrValueIs(input.referral_validated, "true")
    /\ AttrValued(input.referrer_customer_id)
    /\ SubtotalOf(input) >= ConfigOf(input).referee_min_order.v

\* C2: Order class, valid config, referral_validated = "true", a referrer id
\* and subtotal >= refereeMinOrder give exactly one operation: one candidate,
\* Percentage(refereeDiscountPercentage), on the order subtotal without
\* excluded lines, selection strategy First.
C2_Qualifies(in) ==
    /\ OrderGranted(in)
    /\ ConfigValid(in)
    /\ AttrValueIs(in.referral_validated, "true")
    /\ AttrValued(in.referrer_customer_id)
    /\ SubtotalOf(in) >= ConfigOf(in).referee_min_order.v

C2_ReferralGivesOnePercentage ==
    (Finished /\ C2_Qualifies(input)) =>
        /\ ReturnedOne
        /\ OpsOf(result)[1].selection_strategy = "First"
        /\ Len(OpsOf(result)[1].candidates) = 1
        /\ TheValue = [kind |-> "Percentage",
                       value |-> [decimal |-> ConfigOf(input).referee_discount_percentage]]
        /\ OpsOf(result)[1].candidates[1].targets =
             << [kind |-> "OrderSubtotal", excluded_cart_line_ids |-> <<>>] >>

C2_Witness ==
    /\ ReturnedOne
    /\ C2_Qualifies(input)
    /\ SubtotalOf(input) = 100
    /\ ConfigOf(input).referee_min_order.v = 100

\* C3: store-credit mode, a customer with credits c > 0.
C3_Case(in) ==
    /\ OrderGranted(in)
    /\ ~ConfigPresent(in)
    /\ HasCustomer(in)
    /\ F64Lt(Num(0), CreditsOf(in))

C3_Capped(in) ==
    IF CreditsOf(in).kind = "num" /\ CreditsOf(in).v < SubtotalOf(in)
    THEN CreditsOf(in).v
    ELSE SubtotalOf(in)

\* C3 as claimed: for every subtotal >= 0 the output carries the fixed amount
\* min(c, subtotal).
C3_Original ==
    (Finished /\ C3_Case(input)) =>
        /\ ReturnedOne
        /\ TheValue = [kind |-> "FixedAmount",
                       amount |-> [decimal |-> Num(C3_Capped(input))]]

\* C3 as amended: for a subtotal > 0 the output is one operation with the
\* fixed amount min(c, subtotal); for a subtotal of 0 the output is empty.
C3_FixedAmountIsMin ==
    (Finished /\ C3_Case(input)) =>
        IF SubtotalOf(input) > 0
        THEN /\ ReturnedOne
             /\ TheValue = [kind |-> "FixedAmount",
                            amount |-> [decimal |-> Num(C3_Capped(input))]]
        ELSE ReturnedEmpty

C3_Witness ==
    /\ ReturnedOne
    /\ C3_Case(input)
    /\ CreditsOf(input) = Num(100)
    /\ SubtotalOf(input) = 100
    /\ TheValue.amount.decimal = Num(100)

\* C4: store-credit mode gives an empty output when there is no buyer
\* identity, no customer, or credits <= 0; a missing credit metafield and a
\* text that is no number count as 0 credits.
C4_NoCreditsGivesEmpty ==
    (/\ Finished
     /\ ~ConfigPresent(input)
     /\ (~HasCustomer(input) \/ F64Le(CreditsOf(input), Num(0)))) => ReturnedEmpty

C4_Witness ==
    /\ ReturnedEmpty
    /\ OrderGranted(input)
    /\ ~ConfigPresent(input)
    /\ HasCustomer(input)
    /\ input.buyer_identity[1].customer[1].metafield = << [value |-> <<"a", "b", "c">>] >>
    /\ SubtotalOf(input) > 0
    /\ pc = "EmptyResult"

\* C5 as claimed: every emitted value is non-negative and at most the
\* subtotal: fixed amount in 0..subtotal, percentage in 0..100.
C5_Original ==
    ReturnedOne =>
        /\ TheValue.kind = "FixedAmount" =>
             /\ F64Le(Num(0), TheValue.amount.decimal)
             /\ F64Le(TheValue.amount.decimal, Num(SubtotalOf(input)))
        /\ TheValue.kind = "Percentage" =>
             /\ F64Le(Num(0), TheValue.value.decimal)
             /\ F64Le(TheValue.value.decimal, Num(100))

\* C5 as amended: a fixed amount is positive and at most the subtotal; a
\* percentage is the configured refereeDiscountPercentage, unchanged and
\* unbounded.
C5_ValueBounds ==
    ReturnedOne =>
        /\ TheValue.kind = "FixedAmount" =>
             /\ F64Lt(Num(0), TheValue.amount.decimal)
             /\ F64Le(TheValue.amount.decimal, Num(SubtotalOf(input)))
        /\ TheValue.kind = "Percentage" =>
             TheValue.value.decimal = ConfigOf(input).referee_discount_percentage

C5_Witness ==
    /\ ReturnedOne
    /\ TheValue.kind = "FixedAmount"
    /\ CreditsOf(input) = PosInf
    /\ TheValue.amount.decimal = Num(150)

\* The second evaluation has ended and its input is the first one's with
\* the named parts replaced.
Reran == Finished /\ first # <<>>
FirstInput == first[1].input
SameOutcome == first[1].pc = pc /\ first[1].result = result

\* C6: with a config metafield that is no DiscountConfig the evaluation
\* behaves as for the same input without config metafield: it runs in
\* store-credit mode, so that a customer with credits gets the fixed amount,
\* and it returns no error.
C6_MalformedConfigIsStoreCredit ==
    /\ (/\ Finished
        /\ OrderGranted(input)
        /\ ConfigPresent(input)
        /\ ~ConfigValid(input)
        /\ HasCustomer(input)
        /\ F64Lt(Num(0), CreditsOf(input))
        /\ SubtotalOf(input) > 0) =>
           /\ ReturnedOne
           /\ TheValue.kind = "FixedAmount"
    /\ (/\ Reran
        /\ ConfigPresent(FirstInput)
        /\ ~ConfigValid(FirstInput)
        /\ input = [FirstInput EXCEPT !.metafield = <<>>]) =>
           /\ first[1].pc # "Trap"
           /\ SameOutcome

\* C7: with a config metafield the output is non-empty only if
\* referral_validated has the value "true" and subtotal >= refereeMinOrder;
\* an absent attribute, one without value, another value, or a subtotal
\* below the minimum gives an empty output.
C7_ReferralGates ==
    (Finished /\ ConfigPresent(input)) =>
        /\ OpsOf(result) # <<>> =>
             /\ AttrValueIs(input.referral_validated, "true")
             /\ ConfigValid(input)
             /\ SubtotalOf(input) >= ConfigOf(input).referee_min_order.v
        /\ ~AttrValueIs(input.referral_validated, "true") => ReturnedEmpty
        /\ (ConfigValid(input) /\ SubtotalOf(input) < ConfigOf(input).referee_min_order.v)
             => ReturnedEmpty

C7_Witness ==
    /\ ReturnedEmpty
    /\ OrderGranted(input)
    /\ ConfigValid(input)
    /\ AttrValueIs(input.referral_validated, "True")
    /\ AttrValued(input.referrer_customer_id)
    /\ SubtotalOf(input) >= ConfigOf(input).referee_min_order.v

C7_WitnessBelowMinimum ==
    /\ ReturnedEmpty
    /\ OrderGranted(input)
    /\ ConfigValid(input)
    /\ AttrValueIs(input.referral_validated, "true")
    /\ AttrValued(input.referrer_customer_id)
    /\ SubtotalOf(input) = 50
    /\ ConfigOf(input).referee_min_order.v = 100

\* C8 as claimed: with a config metafield, a referrer_customer_id that is
\* absent, has no value, or has the empty string as value gives an empty
\* output.
C8_Original ==
    (/\ Finished
     /\ ConfigValid(input)
     /\ \/ ~AttrValued(input.referrer_customer_id)
        \/ AttrValueIs(input.referrer_customer_id, "")) => ReturnedEmpty

\* C8 as amended: an absent referrer_customer_id and one without value give
\* an empty output; the empty string is a value like any other and passes
\* the gate.
C8_ReferrerIdPresence ==
    /\ (Finished /\ ConfigPresent(input) /\ ~AttrValued(input.referrer_customer_id))
         => ReturnedEmpty
    /\ (/\ Finished
        /\ OrderGranted(input)
        /\ ConfigValid(input)
        /\ AttrValueIs(input.referral_validated, "true")
        /\ AttrValueIs(input.referrer_customer_id, "")
        /\ SubtotalOf(input) >= ConfigOf(input).referee_min_order.v) => ReturnedOne

C8_Witness ==
    /\ ReturnedEmpty
    /\ OrderGranted(input)
    /\ ConfigValid(input)
    /\ AttrValueIs(input.referral_validated, "true")
    /\ input.referrer_customer_id = << [value |-> <<>>] >>
    /\ SubtotalOf(input) >= ConfigOf(input).referee_min_order.v

C8_WitnessEmptyString ==
    /\ ReturnedOne
    /\ AttrValueIs(input.referrer_customer_id, "")

\* C9: one mode per evaluation.  With a config metafield the output is empty
\* or a Percentage, never a FixedAmount, and is the same for every buyer;
\* without one it is empty or a FixedAmount, never a Percentage, and is the
\* same for all referral attributes.
C9_ModesNeverMixed ==
    /\ (Finished /\ ConfigPresent(input)) =>
         \A i \in 1..Len(OpsOf(result)) :
            OpsOf(result)[i].candidates[1].value.kind = "Percentage"
    /\ (Finished /\ ~ConfigPresent(input)) =>
         \A i \in 1..Len(OpsOf(result)) :
            OpsOf(result)[i].candidates[1].value.kind = "FixedAmount"
    /\ (/\ Reran
        /\ ConfigPresent(FirstInput)
        /\ input = [FirstInput EXCEPT !.buyer_identity = input.buyer_identity])
         => SameOutcome
    /\ (/\ Reran
        /\ ~ConfigPresent(FirstInput)
        /\ input = [FirstInput EXCEPT
                      !.referral_validated = input.referral_validated,
                      !.referrer_customer_id = input.referrer_customer_id])
         => SameOutcome

\* No fallback to store credit: the referral gate failed for a customer
\* with credits, and again for the same cart without buyer.
C9_Witness ==
    /\ Reran
    /\ ReturnedEmpty
    /\ OrderGranted(input)
    /\ ConfigValid(input)
    /\ ~AttrValueIs(input.referral_validated, "true")
    /\ SubtotalOf(input) > 0
    /\ HasCustomer(FirstInput)
    /\ F64Lt(Num(0), CreditsOf(FirstInput))
    /\ input = [FirstInput EXCEPT !.buyer_identity = <<>>]

C9_WitnessStoreCredit ==
    /\ Reran
    /\ ReturnedOne
    /\ ~ConfigPresent(input)
    /\ input.referral_validated # FirstInput.referral_validated
    /\ input = [FirstInput EXCEPT
                  !.referral_validated = input.referral_validated,
                  !.referrer_customer_id = input.referrer_customer_id]

\* C10: every evaluation ends in EmptyResult or SingleOperationResult, never
\* in an error; SingleOperationResult comes only from Built; the output has
\* 0 operations or 1 operation with 1 candidate; the same input gives the
\* same terminal state and output.
C10_TotalAndDeterministic ==
    /\ pc # "Trap"
    /\ (~Finished => ENABLED Next)
    /\ pc = "EmptyResult" => result = Some([operations |-> <<>>])
    /\ pc = "SingleOperationResult" =>
         /\ ReturnedOne
         /\ Len(OpsOf(result)[1].candidates) = 1
         /\ OpsOf(result) = operations
    /\ (Reran /\ input = FirstInput) => SameOutcome

\* C10 without the error state: what holds of every evaluation that does not
\* abort.
C10_ExceptAbort ==
    /\ (~Finished => ENABLED Next)
    /\ pc = "EmptyResult" => result = Some([operations |-> <<>>])
    /\ pc = "SingleOperationResult" =>
         /\ ReturnedOne
         /\ Len(OpsOf(result)[1].candidates) = 1
         /\ OpsOf(result) = operations
    /\ (Reran /\ input = FirstInput) => SameOutcome
    /\ pc = "Trap" => (ConfigPresent(input) /\ ~ConfigValid(input))

====
